---- MODULE Spec2Model ----
(***************************************************************************)
(* Model of the opencode auto-commit plugin                                *)
(* (.opencode/plugins/autocommit.ts, lines 290-831).                       *)
(*                                                                         *)
(* The plugin keeps two pieces of process-wide state, the settings object  *)
(* and lastCommittedTurnID, and exposes a session.idle event handler and   *)
(* four settings tools.  The event handler is an async function: every     *)
(* `await` is a suspension point at which another handler run or a tool    *)
(* call may execute.  Each action below is the synchronous code that runs  *)
(* between two suspension points of one handler run.                       *)
(*                                                                         *)
(* Strings are modelled as sequences of one-character strings so that      *)
(* length, concatenation, substring and trim are computed as the code      *)
(* computes them.                                                          *)
(***************************************************************************)
EXTENDS Integers, Sequences, FiniteSets, TLC

(***************************************************************************)
(* Bounds of the model.                                                    *)
(***************************************************************************)
NumHandlers == 2          \* handler runs that may be in flight together
MaxEvents == 2            \* events delivered, with failing calls and setSettings
MaxDispatched == 3        \* events delivered, the settings staying as loaded
MaxUserMsgs == 2          \* user messages over all sessions
MaxFaults == 2            \* failing external calls
MaxToolCalls == 1         \* settings tool calls next to the event handler
MaxSettingsCalls == 3     \* settings tool calls, settings tools alone
MaxTurnLen == 4           \* messages of a list handed to getLastTurn
MaxRaceCalls == 2         \* setSettings and resetSettings calls next to the handler

Handlers == 1..NumHandlers
Sessions == {"sA", "sB"}

Undefined == "undefined"
\* lastCommittedTurnID before any turn was marked; message ids start at 1
UndefinedID == 0

(***************************************************************************)
(* Strings.                                                                *)
(***************************************************************************)
NL == "\n"

RECURSIVE Repeat(_, _)
Repeat(c, n) == IF n = 0 THEN <<>> ELSE <<c>> \o Repeat(c, n - 1)

\* join(sep) of a sequence of strings
RECURSIVE Join(_, _)
Join(strs, sep) ==
  IF Len(strs) = 0 THEN <<>>
  ELSE IF Len(strs) = 1 THEN strs[1]
  ELSE strs[1] \o sep \o Join(Tail(strs), sep)

\* String.prototype.substring(0, end): a negative end is treated as 0
Substring0(s, end) ==
  LET e == IF end < 0 THEN 0 ELSE IF end > Len(s) THEN Len(s) ELSE end
  IN  SubSeq(s, 1, e)

IsSpace(c) == c \in {" ", NL}

RECURSIVE TrimLeft(_)
TrimLeft(s) ==
  IF Len(s) > 0 /\ IsSpace(s[1]) THEN TrimLeft(Tail(s)) ELSE s

RECURSIVE TrimRight(_)
TrimRight(s) ==
  IF Len(s) > 0 /\ IsSpace(s[Len(s)]) THEN TrimRight(SubSeq(s, 1, Len(s) - 1)) ELSE s

\* String.prototype.trim()
Trim(s) == TrimRight(TrimLeft(s))

AutoCommitStr == <<"A","u","t","o","-","c","o","m","m","i","t">>
UserPromptHeader == <<NL, NL, "#","#"," ","U","s","e","r"," ","P","r","o","m","p","t", NL>>
LLMResponseHeader == <<NL, NL, "#","#"," ","L","L","M"," ","R","e","s","p","o","n","s","e", NL>>
ellipsis == <<NL, ".", ".", ".">>

(***************************************************************************)
(* Settings: ZAutoCommitSettings and the defaults of the plugin.           *)
(***************************************************************************)
ZAutoCommitMode == {"disabled", "worktree", "enabled"}
MinCommitLength == 100
\* the longest first line of a commit message the integration test accepts
MaxFirstLine == 50
DefaultMaxCommitLength == 10000
DefaultMode == "worktree"

\* ZAutoCommitSettings.partial().parse: TRUE iff the parsed YAML object passes
ValidPartial(p) ==
  /\ DOMAIN p \subseteq {"mode", "commitModel", "maxCommitLength"}
  /\ ("mode" \in DOMAIN p => p["mode"] \in ZAutoCommitMode)
  /\ ("maxCommitLength" \in DOMAIN p => p["maxCommitLength"] >= MinCommitLength)

\* Object spread / Object.assign: keys of `over` replace those of `base`
Assign(base, over) ==
  [k \in (DOMAIN base) \cup (DOMAIN over) |->
     IF k \in DOMAIN over THEN over[k] ELSE base[k]]

NoOverrides == [k \in {} |-> Undefined]

\* the value of settings.commitModel (undefined when the key is absent)
CommitModelOf(s) == IF "commitModel" \in DOMAIN s THEN s["commitModel"] ELSE Undefined

\* the null that loadSettingsFromFile returns on failure
Null == [null |-> TRUE]
IsNull(x) == "null" \in DOMAIN x

\* the settings file: missing, not a YAML object, or a YAML object
MissingFile == [kind |-> "missing", data |-> NoOverrides]
GarbageFile == [kind |-> "garbage", data |-> NoOverrides]
YamlFile(obj) == [kind |-> "yaml", data |-> obj]

\* loadSettingsFromFile: the parsed partial settings, or null when the file
\* is missing, does not parse or does not validate
loadSettingsFromFile(f) ==
  IF f.kind # "yaml" THEN Null
  ELSE IF ValidPartial(f.data) THEN f.data ELSE Null

\* { mode: "worktree", maxCommitLength: 10000, ...fileSettings }
DefaultsWith(fileSettings) ==
  Assign([mode |-> DefaultMode, maxCommitLength |-> DefaultMaxCommitLength],
         IF IsNull(fileSettings) THEN NoOverrides ELSE fileSettings)

(***************************************************************************)
(* truncateCommitMessage                                                   *)
(***************************************************************************)
truncateCommitMessage(message, maxLength) ==
  IF Len(message) <= maxLength THEN message
  ELSE LET truncateLength == maxLength - Len(ellipsis)
       IN  Substring0(message, truncateLength) \o ellipsis

(***************************************************************************)
(* getLastTurn                                                             *)
(***************************************************************************)
\* parts.filter(p => p.type === "text").map(p => p.text)
RECURSIVE TextsOf(_)
TextsOf(parts) ==
  IF Len(parts) = 0 THEN <<>>
  ELSE IF Head(parts).type = "text"
       THEN <<Head(parts).text>> \o TextsOf(Tail(parts))
       ELSE TextsOf(Tail(parts))

\* variant: the scan runs from the front and stops at the first user message
LastUserIndex_First(messages, i) ==
  IF \E j \in 1..i : messages[j].role = "user"
  THEN CHOOSE j \in 1..i : /\ messages[j].role = "user"
                           /\ \A k \in 1..(j - 1) : messages[k].role # "user"
  ELSE 0

\* index of the last user message, 0 when there is none
RECURSIVE LastUserIndex(_, _)
LastUserIndex(messages, i) ==
  IF i = 0 THEN 0
  ELSE IF messages[i].role = "user" THEN i
  ELSE LastUserIndex(messages, i - 1)

\* variant: map instead of flatMap, one joined string per assistant message
RECURSIVE AssistantTexts_PerMessage(_, _)
AssistantTexts_PerMessage(messages, id) ==
  IF Len(messages) = 0 THEN <<>>
  ELSE LET m == Head(messages)
       IN  (IF m.role = "assistant" /\ m.parentID = id
            THEN << Join(TextsOf(m.parts), <<NL>>) >> ELSE <<>>)
           \o AssistantTexts_PerMessage(Tail(messages), id)

\* messages.filter(assistant with parentID = id).flatMap(text parts).map(text)
RECURSIVE AssistantTexts(_, _)
AssistantTexts(messages, id) ==
  IF Len(messages) = 0 THEN <<>>
  ELSE LET m == Head(messages)
       IN  (IF m.role = "assistant" /\ m.parentID = id THEN TextsOf(m.parts) ELSE <<>>)
           \o AssistantTexts(Tail(messages), id)

NoTurn == [userMessageID |-> 0, userPrompt |-> <<>>, assistantResponse |-> <<>>]

\* variant: a user message without an answer is no turn
getLastTurn_NullWhenUnanswered(messages) ==
  LET i == LastUserIndex(messages, Len(messages))
  IN  IF i = 0 \/ AssistantTexts(messages, messages[i].id) = <<>> THEN NoTurn
      ELSE [userMessageID |-> messages[i].id,
            userPrompt |-> Join(TextsOf(messages[i].parts), <<NL>>),
            assistantResponse |-> Join(AssistantTexts(messages, messages[i].id), <<NL>>)]

\* returns NoTurn for null
getLastTurn(messages) ==
  LET i == LastUserIndex(messages, Len(messages))
  IN  IF i = 0 THEN NoTurn
      ELSE [userMessageID |-> messages[i].id,
            userPrompt |-> Join(TextsOf(messages[i].parts), <<NL>>),
            assistantResponse |-> Join(AssistantTexts(messages, messages[i].id), <<NL>>)]

\* variant: the sections are separated by one newline, not by a blank line
ComposeMessage_NoBlankLine(summary, turn) ==
  summary \o Tail(UserPromptHeader) \o turn.userPrompt
          \o Tail(LLMResponseHeader) \o turn.assistantResponse

\* the commit message template of the event handler
ComposeMessage(summary, turn) ==
  summary \o UserPromptHeader \o turn.userPrompt \o LLMResponseHeader \o turn.assistantResponse


(***************************************************************************)
(* Environment inputs.                                                     *)
(***************************************************************************)
LongText == Repeat("x", 70)
PromptText == <<"h", "i">>

TextPart(t) == [type |-> "text", text |-> t]
ToolPart == [type |-> "tool", text |-> <<>>]

\* the parts an assistant message may carry
AssistantParts == { <<ToolPart, TextPart(LongText)>> }

\* the parts of the reply to the summary prompt
PromptResults == { <<TextPart(<<"F", "i", "x">>)>>, <<TextPart(<<" ">>)>>, <<ToolPart>>,
                   <<TextPart(Repeat("s", MaxFirstLine + 1)), ToolPart,
                     TextPart(<<"b", " ">>)>> }

\* the body of the client.session.prompt request: the prompt text only
PromptRequest(commitModel) == [parts |-> "prompt"]


\* contents of .opencode/auto-commit.settings.yml
Files == { MissingFile, GarbageFile,
           YamlFile([mode |-> "enabled"]),
           YamlFile([mode |-> "disabled", maxCommitLength |-> 100]),
           YamlFile([maxCommitLength |-> 50]),
           YamlFile([commitModel |-> "m"]) }

\* arguments of setAutoCommitSettings / initAutoCommit
ToolArgs == { NoOverrides,
              [mode |-> "enabled"],
              [mode |-> "disabled"],
              [mode |-> "worktree", commitModel |-> "m"],
              [mode |-> "bogus", maxCommitLength |-> 200],
              [maxCommitLength |-> 2],
              [maxCommitLength |-> 100],
              [commitModel |-> ""] }

\* the messages of the lists handed to getLastTurn: user messages with text
\* and tool parts, assistant messages with one, two or no text part,
\* pointing at either user message
TurnUserParts == <<TextPart(<<"p">>), ToolPart, TextPart(<<"q">>)>>
TurnAssistantParts == { <<TextPart(<<"a">>)>>,
                        <<TextPart(<<"b">>), ToolPart, TextPart(<<"c">>)>>,
                        <<ToolPart>> }
TurnMessages ==
  { [role |-> "user", id |-> i, parentID |-> 0, parts |-> TurnUserParts] : i \in {1, 2} }
  \cup { [role |-> "assistant", id |-> 0, parentID |-> i, parts |-> ps] :
           i \in {1, 2}, ps \in TurnAssistantParts }

\* message ids are unique
UniqueIds(messages) ==
  \A i, j \in 1..Len(messages) :
    (i # j /\ messages[i].role = "user" /\ messages[j].role = "user")
       => messages[i].id # messages[j].id

TurnLists ==
  { l \in UNION { [1..n -> TurnMessages] : n \in 0..MaxTurnLen } : UniqueIds(l) }

\* the message lists, settings files and summary lengths used to exercise
\* the commit message: a prompt with characters a shell or a parser would
\* treat specially, a long prompt, and responses that bring the message to
\* one character below, at and above a maxCommitLength of 100
SpecialPrompt == <<"#", "\"", NL, "$">>
LongPrompt == Repeat("y", 70)
MessageResponses == { Repeat("x", n) : n \in {57, 58, 59} }
MessageLists ==
  LET user(p) == [role |-> "user", id |-> 1, parentID |-> 0, parts |-> <<TextPart(p)>>]
      assistant(r) == [role |-> "assistant", id |-> 0, parentID |-> 1,
                       parts |-> <<ToolPart, TextPart(r)>>]
  IN  { <<user(p)>> : p \in {SpecialPrompt, LongPrompt} }
      \cup { <<user(p), assistant(r)>> :
               p \in {SpecialPrompt, LongPrompt}, r \in MessageResponses }
MessageFiles ==
  { MissingFile,
    YamlFile([mode |-> "enabled", maxCommitLength |-> 100, commitModel |-> "m"]) }

\* the files and arguments used next to the event handler
PipelineFiles == { MissingFile }
PipelineArgs == { [mode |-> "enabled", maxCommitLength |-> 100],
                  [mode |-> "disabled"], [maxCommitLength |-> 2] }

(***************************************************************************)
(* State.                                                                  *)
(***************************************************************************)
VARIABLES
  settings,              \* the in-memory settings object (line 548)
  lastCommittedTurnID,   \* line 554
  file,                  \* content of the settings file
  sessions,              \* the host's message list of every session
  dirty,                 \* the working tree has uncommitted changes
  secondary,             \* git's top-level directory differs from `worktree`
  run,                   \* per handler run: position and local variables
  reset,                 \* the resetSettings call in flight, if any
  toolResult,            \* what the last settings tool call returned
  lastCall,              \* history: the last settings tool call and its arguments
  nextId,                \* next message id the host hands out
  nEvents, nFaults, nToolCalls,
  lastEvent,             \* history: the type of the event delivered last
  processed,             \* history: turn ids that passed the dedup check
  lastRun,               \* history: session of the run that completed last, if
                         \* it passed the dedup check and the session got no
                         \* user message since
  lastOutcome,           \* history: how the run that completed last ended
  lastCheck,             \* history: what git status did in that run
  lastSkip,              \* history: session of that run, if it was skipped
                         \* at the mode gate, the worktree gate or the
                         \* no-turn check and the session got no user
                         \* message since
  failed                 \* history: turn ids whose stage or commit failed

vars == <<settings, lastCommittedTurnID, file, sessions, dirty, secondary,
          run, reset, toolResult, lastCall, nextId, nEvents, lastEvent, nFaults,
          nToolCalls, processed, lastRun, lastOutcome, lastCheck, lastSkip,
          failed>>

procVars == <<settings, lastCommittedTurnID>>
envVars == <<file, sessions, dirty, secondary, nextId>>
toolVars == <<reset, toolResult, nToolCalls, lastCall>>
histVars == <<processed, lastRun, lastOutcome, lastCheck, lastSkip, failed>>

NoRun == "none"

\* the positions of a run skipped at the mode gate (line 676), the worktree
\* gate (698) or the no-turn check (725)
GateSkips == {"log:disabled", "log:notWorktree", "log:noTurn"}

IdleRun ==
  [pc |-> "idle", sessionID |-> "none", isInWorktree |-> FALSE,
   messages |-> <<>>, turn |-> NoTurn, hasUncommittedChanges |-> FALSE,
   tempSession |-> FALSE,   \* a temporary session of this run exists
   summaryFault |-> "none", \* history: what failed in generateCommitSummary
   request |-> Null,        \* history: the prompt request in flight
   reply |-> Null,          \* history: the prompt's reply, until the message
                            \* is logged
   addResult |-> "none",    \* history: what git add did
   commitResult |-> "none", \* history: what git commit did
   logged |-> {},           \* history: the error-level log calls and the
                            \* "Committed changes successfully" call made
   summary |-> <<>>, commitMessage |-> <<>>, truncatedMessage |-> <<>>,
   \* history of this run
   calls |-> {},                  \* the external calls made, logging aside
   modeAtGate |-> "none",         \* settings.mode as read at line 675
   maxAtGate |-> 0,               \* settings.maxCommitLength at that moment
   probe |-> "none",              \* what git rev-parse did
   modeAtWorktreeGate |-> "none", \* settings.mode as read at line 697
   passed |-> FALSE,              \* the run wrote lastCommittedTurnID
   clean |-> FALSE,               \* ... and no run of another turn did since
   changeCheck |-> "none",        \* what git status did
   maxAtTruncate |-> 0,           \* settings.maxCommitLength as read at line 798
   prev |-> NoRun]                \* lastRun when the run started

NoReset == [pc |-> "idle", fileSettings |-> Null]
NoResult == [status |-> "none", value |-> NoOverrides]
NoCall == [tool |-> "none", args |-> NoOverrides]

Active(h) == run[h].pc # "idle"

Start(files, markers, lists) ==
  /\ file \in files
  /\ settings = DefaultsWith(loadSettingsFromFile(file))
  /\ lastCommittedTurnID \in markers
  /\ sessions \in { [s \in Sessions |-> IF s = "sA" THEN l ELSE <<>>] : l \in lists }
  /\ dirty = FALSE
  /\ secondary \in BOOLEAN
  /\ run = [h \in Handlers |-> IdleRun]
  /\ reset = NoReset
  /\ toolResult = NoResult
  /\ lastCall = NoCall
  /\ nextId = 1
  /\ nEvents = 0
  /\ lastEvent = "none"
  /\ nFaults = 0
  /\ nToolCalls = 0
  /\ processed = {}
  /\ lastRun = NoRun
  /\ lastOutcome = "none"
  /\ lastCheck = "none"
  /\ lastSkip = NoRun
  /\ failed = {}

\* the state after the plugin was constructed (lines 546-554)
Init == Start(PipelineFiles, {UndefinedID}, {<<>>})

\* the settings tools are called at any time in the life of the plugin:
\* lastCommittedTurnID is still unset, or holds the id of a turn handled
\* before
InitTools == Start(Files, {UndefinedID, 1}, {<<>>})

\* the plugin when session sA holds an arbitrary message list
InitTurn == Start(PipelineFiles, {UndefinedID}, TurnLists)

(***************************************************************************)
(* The environment: the user and the assistant append messages, files are  *)
(* edited.                                                                 *)
(***************************************************************************)
\* the plugin never reads the id of an assistant message
AssistantId == 0

UserIds(s) == { sessions[s][i].id : i \in { j \in 1..Len(sessions[s]) : sessions[s][j].role = "user" } }
AllUserIds == UNION { UserIds(s) : s \in Sessions }
Answered(s, id) == \E i \in 1..Len(sessions[s]) :
                      sessions[s][i].role = "assistant" /\ sessions[s][i].parentID = id

\* a new user message ends "no new user message in between"
ForgetPrev(s) ==
  [h \in Handlers |-> IF run[h].prev = s THEN [run[h] EXCEPT !.prev = NoRun] ELSE run[h]]

\* the user sends a prompt once the previous one of the session is answered
UserMessage(s) ==
  /\ Cardinality(AllUserIds) < MaxUserMsgs
  /\ \A id \in UserIds(s) : Answered(s, id)
  /\ sessions' = [sessions EXCEPT ![s] =
        Append(@, [role |-> "user", id |-> nextId, parentID |-> 0,
                   parts |-> <<TextPart(PromptText)>>])]
  /\ nextId' = nextId + 1
  /\ run' = ForgetPrev(s)
  /\ lastRun' = IF lastRun = s THEN NoRun ELSE lastRun
  /\ lastSkip' = IF lastSkip = s THEN NoRun ELSE lastSkip
  /\ UNCHANGED <<procVars, file, dirty, secondary, toolVars,
                 nEvents, lastEvent, nFaults, processed, lastOutcome, lastCheck, failed>>

\* the assistant answers the pending prompt of the session
AssistantMessage(s) ==
  \E parent \in UserIds(s), parts \in AssistantParts :
    /\ ~Answered(s, parent)
    /\ sessions' = [sessions EXCEPT ![s] =
          Append(@, [role |-> "assistant", id |-> AssistantId, parentID |-> parent,
                     parts |-> parts])]
    /\ UNCHANGED <<procVars, file, dirty, secondary, nextId, run, toolVars,
                   nEvents, lastEvent, nFaults, histVars>>

EditFiles ==
  /\ ~dirty
  /\ dirty' = TRUE
  /\ UNCHANGED <<procVars, file, sessions, secondary, nextId, run,
                 toolVars, nEvents, lastEvent, nFaults, histVars>>


(***************************************************************************)
(* Helpers of the handler steps.                                           *)
(***************************************************************************)
\* an awaited call returns normally / fails (throws, or exits non-zero)
Ok == UNCHANGED nFaults
Fault == nFaults < MaxFaults /\ nFaults' = nFaults + 1

\* the handler run continues with local state r
\* the log calls whose entries are recorded: "Failed to stage changes"
\* (line 510), "Failed to commit changes" (534), "Error during auto-commit"
\* (813) and "Committed changes successfully" (803)
RecordedLogs == {"log:stageFailed", "log:commitFailed", "log:error", "log:success"}

\* the run record when the handler moves to position r.pc: a log call made
\* there is recorded
WithLog(r) ==
  [r EXCEPT !.logged = IF r.pc \in RecordedLogs THEN @ \cup {r.pc} ELSE @]

Step(h, r) ==
  run' = [run EXCEPT ![h] = WithLog(r)] /\ UNCHANGED <<lastRun, lastOutcome, lastCheck, lastSkip, failed>>

\* the handler run ends: its local variables are gone
Finish(h, outcome) ==
  /\ run' = [run EXCEPT ![h] = IdleRun]
  /\ lastOutcome' = outcome
  /\ lastCheck' = run[h].changeCheck
  /\ lastSkip' = IF run[h].pc \in GateSkips THEN run[h].sessionID ELSE NoRun
  /\ lastRun' = IF /\ run[h].passed
                   /\ getLastTurn(sessions[run[h].sessionID]).userMessageID
                        = run[h].turn.userMessageID
                THEN run[h].sessionID ELSE NoRun
  /\ failed' = IF run[h].pc \in {"log:stageFailed", "log:commitFailed"}
               THEN failed \cup {run[h].turn.userMessageID} ELSE failed

\* a step that only moves the handler run
StepFrame == UNCHANGED <<procVars, envVars, toolVars, nEvents, lastEvent, processed>>

\* resumption from a log call that ends the run: return, or the log call threw
AfterFinalLog(h, at, outcome) ==
  /\ run[h].pc = at
  /\ \/ Ok /\ Finish(h, outcome)
     \/ Fault /\ Finish(h, "thrown")
  /\ StepFrame

(***************************************************************************)
(* The event handler (lines 663-822), one action per resumption.           *)
(***************************************************************************)
\* variant: the type of the event is not tested
OtherEvent_Handled ==
  /\ nEvents' = nEvents + 1
  /\ lastEvent' = "other"
  /\ \E h \in Handlers :
       /\ ~Active(h)
       /\ run' = [run EXCEPT ![h] = [IdleRun EXCEPT !.pc = "log:received",
                                                    !.sessionID = "sA",
                                                    !.prev = lastRun]]
  /\ UNCHANGED <<procVars, envVars, toolVars, nFaults, histVars>>

\* line 664: an event of another type returns at once
OtherEvent ==
  /\ nEvents' = nEvents + 1
  /\ lastEvent' = "other"
  /\ UNCHANGED <<procVars, envVars, toolVars, run, nFaults, histVars>>

\* lines 664-673: a session.idle event for session s starts a handler run
SessionIdle(h, s) ==
  /\ ~Active(h)
  /\ nEvents' = nEvents + 1
  /\ \A o \in Handlers : o < h => Active(o)   \* the runs are interchangeable
  /\ lastEvent' = "session.idle"
  /\ run' = [run EXCEPT ![h] = [IdleRun EXCEPT !.pc = "log:received",
                                               !.sessionID = s, !.prev = lastRun]]
  /\ UNCHANGED <<procVars, envVars, toolVars, nFaults, histVars>>

\* variant: the mode gate is missing
SkipsModeGate_Never(mode) == FALSE

\* line 675: the mode gate
SkipsModeGate(mode) == mode = "disabled"

\* lines 675-686: the mode gate, then the worktree probe is started
AfterLogReceived(h) ==
  /\ run[h].pc = "log:received"
  /\ \/ /\ Ok
        /\ IF SkipsModeGate(settings.mode)
           THEN Step(h, [run[h] EXCEPT !.pc = "log:disabled",
                                       !.modeAtGate = settings.mode])
           ELSE Step(h, [run[h] EXCEPT !.pc = "isWorktree",
                                       !.modeAtGate = settings.mode,
                                       !.maxAtGate = settings.maxCommitLength,
                                       !.calls = @ \cup {"isWorktree"}])
     \/ Fault /\ Finish(h, "thrown")
  /\ StepFrame

\* lines 676-683
AfterLogDisabled(h) == AfterFinalLog(h, "log:disabled", "skipped")

\* variant: a failing probe counts as a secondary worktree
isWorktree_TrueOnFailure(ok, differs) == IF ok THEN differs ELSE TRUE

\* isWorktree (lines 468-477): gitRoot !== directory, false when git fails
isWorktree(ok, differs) == IF ok THEN differs ELSE FALSE

\* lines 686-695
AfterIsWorktree(h) ==
  /\ run[h].pc = "isWorktree"
  /\ \E ok \in BOOLEAN :
       /\ IF ok THEN Ok ELSE Fault
       /\ Step(h, [run[h] EXCEPT !.pc = "log:checked",
                                 !.isInWorktree = isWorktree(ok, secondary),
                                 !.probe = IF ~ok THEN "failed"
                                           ELSE IF secondary THEN "secondary"
                                           ELSE "primary"])
  /\ StepFrame

\* variant: the worktree gate applies in every mode
SkipsWorktreeGate_AnyMode(mode, isInWorktree) == ~isInWorktree

\* line 697: the worktree gate
SkipsWorktreeGate(mode, isInWorktree) == mode = "worktree" /\ ~isInWorktree

\* lines 697-717
AfterLogChecked(h) ==
  /\ run[h].pc = "log:checked"
  /\ \/ /\ Ok
        /\ IF SkipsWorktreeGate(settings.mode, run[h].isInWorktree)
           THEN Step(h, [run[h] EXCEPT !.pc = "log:notWorktree",
                                       !.modeAtWorktreeGate = settings.mode])
           ELSE Step(h, [run[h] EXCEPT !.pc = "log:fetching",
                                       !.modeAtWorktreeGate = settings.mode])
     \/ Fault /\ Finish(h, "thrown")
  /\ StepFrame

\* lines 698-705
AfterLogNotWorktree(h) == AfterFinalLog(h, "log:notWorktree", "skipped")

\* line 719: the message query is sent; the host answers with the list
\* as it is now, the handler resumes later
AfterLogFetching(h) ==
  /\ run[h].pc = "log:fetching"
  /\ \/ /\ Ok
        /\ Step(h, [run[h] EXCEPT !.pc = "session.messages",
                                  !.calls = @ \cup {"session.messages"},
                                  !.messages = sessions[run[h].sessionID]])
     \/ Fault /\ Finish(h, "thrown")
  /\ StepFrame

\* variant: the dedup check never matches
AlreadyCommitted_Never(turn, marker) == FALSE

\* line 735: the dedup check
AlreadyCommitted(turn, marker) == turn.userMessageID = marker

\* variant: the assignment is made after the next await only
MarkerAfterDedup_Deferred(turn, marker) == marker

\* line 747: the value lastCommittedTurnID has when the handler suspends next
MarkerAfterDedup(turn, marker) == turn.userMessageID

\* variant: the marker is assigned before the turn is tested for null
MarkerAfterNoTurn_Cleared(marker) == UndefinedID

\* lines 724-733: the return without a turn assigns nothing
MarkerAfterNoTurn(marker) == marker

\* lines 720-756: response.data ?? [], getLastTurn, dedup check, marker write
Dedup(h, messages) ==
  LET turn == getLastTurn(messages)
      id == turn.userMessageID
  IN  IF turn = NoTurn
      THEN /\ Step(h, [run[h] EXCEPT !.pc = "log:noTurn", !.messages = <<>>])
           /\ lastCommittedTurnID' = MarkerAfterNoTurn(lastCommittedTurnID)
           /\ UNCHANGED processed
      ELSE IF AlreadyCommitted(turn, lastCommittedTurnID)
      THEN /\ Step(h, [run[h] EXCEPT !.pc = "log:alreadyCommitted",
                                     !.messages = <<>>, !.turn = turn])
           /\ UNCHANGED <<lastCommittedTurnID, processed>>
      ELSE /\ lastCommittedTurnID' = MarkerAfterDedup(turn, lastCommittedTurnID)
           /\ run' = [o \in Handlers |->
                IF o = h
                THEN [run[h] EXCEPT !.pc = "log:processing", !.messages = <<>>,
                                    !.turn = turn, !.passed = TRUE, !.clean = TRUE]
                ELSE IF run[o].passed /\ run[o].turn.userMessageID # id
                THEN [run[o] EXCEPT !.clean = FALSE]
                ELSE run[o]]
           /\ UNCHANGED <<lastRun, lastOutcome, lastCheck, lastSkip, failed>>
           /\ processed' = processed \cup {id}

AfterMessages(h) ==
  /\ run[h].pc = "session.messages"
  /\ \/ Ok /\ Dedup(h, run[h].messages)
     \/ Fault /\ Dedup(h, <<>>)          \* response.data is undefined
     \/ /\ Fault /\ Finish(h, "thrown")  \* the query rejects (line 719)
        /\ UNCHANGED <<lastCommittedTurnID, processed>>
  /\ UNCHANGED <<settings, envVars, toolVars, nEvents, lastEvent>>

\* lines 725-732
AfterLogNoTurn(h) == AfterFinalLog(h, "log:noTurn", "skipped")

\* lines 736-744
AfterLogAlreadyCommitted(h) == AfterFinalLog(h, "log:alreadyCommitted", "skipped")

\* lines 749-758
AfterLogProcessing(h) ==
  /\ run[h].pc = "log:processing"
  /\ \/ Ok /\ Step(h, [run[h] EXCEPT !.pc = "hasChanges",
                                     !.calls = @ \cup {"git status"}])
     \/ Fault /\ Finish(h, "thrown")
  /\ StepFrame

\* variant: a failing git status counts as changes
hasChanges_TrueOnFailure(ok, porcelain) == IF ok THEN porcelain ELSE TRUE

\* hasChanges (lines 479-487): trimmed porcelain output non-empty, false
\* when git fails
hasChanges(ok, porcelain) == IF ok THEN porcelain ELSE FALSE

\* lines 758-776
AfterHasChanges(h) ==
  /\ run[h].pc = "hasChanges"
  /\ \E ok \in BOOLEAN :
       /\ IF ok THEN Ok ELSE Fault
       /\ LET has == hasChanges(ok, dirty)
          IN  Step(h, [run[h] EXCEPT !.pc = IF has THEN "log:found" ELSE "log:noChanges",
                                    !.hasUncommittedChanges = has,
                                    !.changeCheck = IF ~ok THEN "failed"
                                                    ELSE IF dirty THEN "dirty"
                                                    ELSE "clean"])
  /\ StepFrame

\* lines 760-767
AfterLogNoChanges(h) == AfterFinalLog(h, "log:noChanges", "skipped")

\* lines 770-779 and 354-361: the call of generateCommitSummary
AfterLogFound(h) ==
  /\ run[h].pc = "log:found"
  /\ \/ Ok /\ Step(h, [run[h] EXCEPT !.pc = "log:generating"])
     \/ Fault /\ Finish(h, "thrown")
  /\ StepFrame


(***************************************************************************)
(* generateCommitSummary (lines 349-423), inlined in the handler run.      *)
(***************************************************************************)
\* lines 354-374: a throwing log call is outside the function's try, so it
\* reaches the handler's catch (line 812)
AfterLogGenerating(h) ==
  /\ run[h].pc = "log:generating"
  /\ \/ Ok /\ Step(h, [run[h] EXCEPT !.pc = "session.create",
                                     !.calls = @ \cup {"session.create"}])
     \/ Fault /\ Step(h, [run[h] EXCEPT !.pc = "log:error"])
  /\ StepFrame

\* lines 372-388: create throws or returns no data -> catch (line 412)
AfterSessionCreate(h) ==
  /\ run[h].pc = "session.create"
  /\ \/ Ok /\ Step(h, [run[h] EXCEPT !.pc = "session.prompt", !.tempSession = TRUE,
                                     !.request = PromptRequest(CommitModelOf(settings)),
                                     !.calls = @ \cup {"session.prompt"}])
     \/ Ok /\ Step(h, [run[h] EXCEPT !.pc = "log:summaryFailed",
                                     !.summaryFault = "noData"])
     \/ Fault /\ Step(h, [run[h] EXCEPT !.pc = "log:summaryFailed",
                                        !.summaryFault = "create"])
  /\ StepFrame

\* variant: the joined text is not trimmed
SummaryOf_Untrimmed(parts) == Join(TextsOf(parts), <<NL>>)

\* lines 390-391: the trimmed newline-join of the text parts of the reply
SummaryOf(parts) == Trim(Join(TextsOf(parts), <<NL>>))

\* lines 380-400
AfterSessionPrompt(h) ==
  /\ run[h].pc = "session.prompt"
  /\ \/ /\ Ok
        /\ \E parts \in PromptResults :
             LET summary == SummaryOf(parts)
             IN  IF Len(summary) = 0
                 THEN Step(h, [run[h] EXCEPT !.pc = "log:summaryFailed",
                                             !.request = Null,
                                             !.reply = [parts |-> parts],
                                             !.summaryFault = "noText"])
                 ELSE Step(h, [run[h] EXCEPT !.pc = "session.delete",
                                             !.request = Null,
                                             !.reply = [parts |-> parts],
                                             !.summary = summary,
                                             !.calls = @ \cup {"session.delete"}])
     \/ Fault /\ Step(h, [run[h] EXCEPT !.pc = "log:summaryFailed",
                                        !.request = Null,
                                        !.summaryFault = "prompt"])
  /\ StepFrame

\* variant: a failure of the deletion is ignored
AfterSessionDelete_KeepsSummary(h) ==
  /\ run[h].pc = "session.delete"
  /\ \/ Ok /\ Step(h, [run[h] EXCEPT !.pc = "log:generated", !.tempSession = FALSE])
     \/ Fault /\ Step(h, [run[h] EXCEPT !.pc = "log:generated",
                                        !.summaryFault = "delete"])
  /\ StepFrame

\* lines 398-409
AfterSessionDelete(h) ==
  /\ run[h].pc = "session.delete"
  /\ \/ Ok /\ Step(h, [run[h] EXCEPT !.pc = "log:generated", !.tempSession = FALSE])
     \/ Fault /\ Step(h, [run[h] EXCEPT !.pc = "log:summaryFailed",
                                        !.summaryFault = "delete"])
  /\ StepFrame

\* lines 402-411 and 779-796: the log call is inside the try, so its failure
\* is caught at line 412
AfterLogGenerated(h) ==
  /\ run[h].pc = "log:generated"
  /\ \/ Ok /\ Step(h, [run[h] EXCEPT
                  !.pc = "log:created",
                  !.commitMessage = ComposeMessage(run[h].summary, run[h].turn)])
     \/ Fault /\ Step(h, [run[h] EXCEPT !.pc = "log:summaryFailed",
                                        !.summaryFault = "log"])
  /\ StepFrame

\* lines 413-421 and 779-796: the fallback summary
AfterLogSummaryFailed(h) ==
  /\ run[h].pc = "log:summaryFailed"
  /\ \/ Ok /\ Step(h, [run[h] EXCEPT
                  !.pc = "log:created", !.summary = AutoCommitStr,
                  !.commitMessage = ComposeMessage(AutoCommitStr, run[h].turn)])
     \/ Fault /\ Step(h, [run[h] EXCEPT !.pc = "log:error"])
  /\ StepFrame

(***************************************************************************)
(* Compose, truncate, makeCommit (lines 489-544 and 781-821).              *)
(***************************************************************************)
\* variant: the limit is the one in force when the event passed the mode gate
CommitLengthLimit_AtArrival(current, atArrival) == atArrival

\* line 798: the limit is settings.maxCommitLength as it is now
CommitLengthLimit(current, atArrival) == current

\* lines 798-800 and 491-497: truncation reads settings.maxCommitLength now
AfterLogCreated(h) ==
  /\ run[h].pc = "log:created"
  /\ \/ Ok /\ Step(h, [run[h] EXCEPT
                  !.pc = "log:staging",
                  !.reply = Null,
                  !.truncatedMessage =
                     truncateCommitMessage(run[h].commitMessage,
                        CommitLengthLimit(settings.maxCommitLength,
                                          run[h].maxAtGate)),
                  !.maxAtTruncate = settings.maxCommitLength])
     \/ Fault /\ Step(h, [run[h] EXCEPT !.pc = "log:error", !.reply = Null])
  /\ StepFrame

\* lines 491-499
AfterLogStaging(h) ==
  /\ run[h].pc = "log:staging"
  /\ \/ Ok /\ Step(h, [run[h] EXCEPT !.pc = "git add", !.calls = @ \cup {"git add"}])
     \/ Fault /\ Step(h, [run[h] EXCEPT !.pc = "log:stageFailed"])
  /\ StepFrame

\* variant: a failure of git add is not caught before the commit
AfterGitAdd_IgnoresFailure(h) ==
  /\ run[h].pc = "git add"
  /\ \/ Ok /\ Step(h, [run[h] EXCEPT !.pc = "log:creating", !.addResult = "ok"])
     \/ Fault /\ Step(h, [run[h] EXCEPT !.pc = "log:creating",
                                        !.addResult = "failed"])
  /\ StepFrame

\* lines 499-508
AfterGitAdd(h) ==
  /\ run[h].pc = "git add"
  /\ \/ Ok /\ Step(h, [run[h] EXCEPT !.pc = "log:creating", !.addResult = "ok"])
     \/ Fault /\ Step(h, [run[h] EXCEPT !.pc = "log:stageFailed",
                                        !.addResult = "failed"])
  /\ StepFrame

\* lines 501-522: the log call is inside the first try
AfterLogCreating(h) ==
  /\ run[h].pc = "log:creating"
  /\ \/ Ok /\ Step(h, [run[h] EXCEPT !.pc = "git commit",
                                     !.calls = @ \cup {"git commit"}])
     \/ Fault /\ Step(h, [run[h] EXCEPT !.pc = "log:stageFailed"])
  /\ StepFrame

\* variant: a failure of git commit is not caught
AfterGitCommit_IgnoresFailure(h) ==
  /\ run[h].pc = "git commit"
  /\ \/ /\ dirty /\ Ok
        /\ dirty' = FALSE
        /\ Step(h, [run[h] EXCEPT !.pc = "log:commitCreated",
                                    !.commitResult = "ok"])
     \/ /\ (~dirty /\ Ok) \/ Fault
        /\ UNCHANGED dirty
        /\ Step(h, [run[h] EXCEPT !.pc = "log:commitCreated",
                                    !.commitResult = "failed"])
  /\ UNCHANGED <<procVars, file, sessions, secondary, nextId,
                 toolVars, nEvents, lastEvent, processed>>

\* lines 522-530: git commit fails when there is nothing to commit
AfterGitCommit(h) ==
  /\ run[h].pc = "git commit"
  /\ \/ /\ dirty /\ Ok
        /\ dirty' = FALSE
        /\ Step(h, [run[h] EXCEPT !.pc = "log:commitCreated",
                                    !.commitResult = "ok"])
     \/ /\ (~dirty /\ Ok) \/ Fault
        /\ UNCHANGED dirty
        /\ Step(h, [run[h] EXCEPT !.pc = "log:commitFailed",
                                    !.commitResult = "failed"])
  /\ UNCHANGED <<procVars, file, sessions, secondary, nextId,
                 toolVars, nEvents, lastEvent, processed>>

\* lines 524-532 and 802-810: the log call is inside the second try
AfterLogCommitCreated(h) ==
  /\ run[h].pc = "log:commitCreated"
  /\ \/ Ok /\ Step(h, [run[h] EXCEPT !.pc = "log:success"])
     \/ Fault /\ Step(h, [run[h] EXCEPT !.pc = "log:commitFailed"])
  /\ StepFrame

\* resumption from a log call inside a catch of makeCommit: return false,
\* or the log call threw and the handler's catch (line 812) takes over
AfterFailureLog(h, at) ==
  /\ run[h].pc = at
  /\ \/ Ok /\ Finish(h, "failed")
     \/ Fault /\ Step(h, [run[h] EXCEPT !.pc = "log:error"])
  /\ StepFrame

\* lines 510-518
AfterLogStageFailed(h) == AfterFailureLog(h, "log:stageFailed")

\* lines 534-542
AfterLogCommitFailed(h) == AfterFailureLog(h, "log:commitFailed")

\* lines 803-811
AfterLogSuccess(h) ==
  /\ run[h].pc = "log:success"
  /\ \/ Ok /\ Finish(h, "committed")
     \/ Fault /\ Step(h, [run[h] EXCEPT !.pc = "log:error"])
  /\ StepFrame

\* lines 813-821: the log call of the handler's catch
AfterLogError(h) == AfterFinalLog(h, "log:error", "failed")


(***************************************************************************)
(* The settings tools (lines 556-660).                                     *)
(***************************************************************************)
Returned(value) == [status |-> "ok", value |-> value]
Failed == [status |-> "error", value |-> NoOverrides]

ToolFrame == UNCHANGED <<lastCommittedTurnID, sessions, dirty, secondary,
                         nextId, run, nEvents, lastEvent, histVars>>

\* variant: the tool reads the settings file again
getSettingsTool_Reloads ==
  /\ nToolCalls' = nToolCalls + 1
  /\ lastCall' = [tool |-> "get", args |-> NoOverrides]
  /\ toolResult' = Returned(DefaultsWith(loadSettingsFromFile(file)))
  /\ UNCHANGED <<settings, file, reset, nFaults>>
  /\ ToolFrame

\* lines 556-562
getSettingsTool ==
  /\ nToolCalls' = nToolCalls + 1
  /\ lastCall' = [tool |-> "get", args |-> NoOverrides]
  /\ toolResult' = Returned(settings)
  /\ UNCHANGED <<settings, file, reset, nFaults>>
  /\ ToolFrame

\* lines 575-577: ZAutoCommitMode.parse(args.mode) throws
SetSettingsThrows(args) == "mode" \in DOMAIN args /\ args["mode"] \notin ZAutoCommitMode

\* variant: the mode is written in a step of its own, before the other keys
SetSettingsUpdate_ModeFirst(args) ==
  [k \in DOMAIN args \cap {"mode"} |-> args[k]]

\* lines 573-583: the update object built from the arguments
SetSettingsUpdate(args) ==
  [k \in DOMAIN args |->
     IF k = "commitModel" /\ args[k] = "" THEN Undefined ELSE args[k]]

\* variant: the update is laid over the defaults, so a key the call does not
\* provide is written too
setSettingsTool_FromDefaults(args) ==
  /\ nToolCalls' = nToolCalls + 1
  /\ lastCall' = [tool |-> "set", args |-> args]
  /\ IF SetSettingsThrows(args)
     THEN /\ toolResult' = Failed
          /\ UNCHANGED settings
     ELSE /\ settings' = Assign(Assign(settings, DefaultsWith(Null)),
                                SetSettingsUpdate(args))
          /\ toolResult' = Returned(settings')
  /\ UNCHANGED <<file, reset, nFaults>>
  /\ ToolFrame

\* lines 571-591
setSettingsTool(args) ==
  /\ nToolCalls' = nToolCalls + 1
  /\ lastCall' = [tool |-> "set", args |-> args]
  /\ IF SetSettingsThrows(args)
     THEN /\ toolResult' = Failed
          /\ UNCHANGED settings
     ELSE /\ settings' = Assign(settings, SetSettingsUpdate(args))
          /\ toolResult' = Returned(settings')
  /\ UNCHANGED <<file, reset, nFaults>>
  /\ ToolFrame

\* lines 599 and 316-347: the file is read and validated; a throwing log call
\* inside the try makes loadSettingsFromFile return null, one inside its
\* catch makes the tool fail
ResetLoad ==
  /\ reset.pc = "idle"
  /\ nToolCalls' = nToolCalls + 1
  /\ lastCall' = [tool |-> "reset", args |-> NoOverrides]
  /\ \/ /\ Ok
        /\ reset' = [pc |-> "assign", fileSettings |-> loadSettingsFromFile(file)]
     \/ /\ Fault
        /\ reset' = [pc |-> "assign", fileSettings |-> Null]
  /\ UNCHANGED <<settings, file, toolResult>>
  /\ ToolFrame

\* lines 600-608
ResetApply ==
  /\ reset.pc = "assign"
  /\ settings' = Assign(settings, DefaultsWith(reset.fileSettings))
  /\ toolResult' = Returned(settings')
  /\ reset' = NoReset
  /\ UNCHANGED <<file, nToolCalls, lastCall, nFaults>>
  /\ ToolFrame

\* line 627
InitThrows(args) ==
  "mode" \in DOMAIN args /\ args["mode"] # "" /\ args["mode"] \notin ZAutoCommitMode

\* lines 626-633
InitNewSettings(args) ==
  Assign([mode |-> IF "mode" \in DOMAIN args /\ args["mode"] # ""
                   THEN args["mode"] ELSE DefaultMode,
          maxCommitLength |-> IF "maxCommitLength" \in DOMAIN args
                              THEN args["maxCommitLength"] ELSE DefaultMaxCommitLength],
         IF "commitModel" \in DOMAIN args /\ args["commitModel"] # ""
         THEN [commitModel |-> args["commitModel"]] ELSE NoOverrides)

\* variant: the written settings are applied to the live object as well
SettingsAfterInit_Reloaded(current, newSettings) == Assign(current, newSettings)

\* lines 622-647: the tool only writes the file, the settings object of the
\* plugin is not assigned to
SettingsAfterInit(current, newSettings) == current

\* lines 622-659
initTool(args) ==
  /\ nToolCalls' = nToolCalls + 1
  /\ lastCall' = [tool |-> "init", args |-> args]
  /\ IF InitThrows(args)
     THEN /\ toolResult' = Failed
          /\ UNCHANGED <<settings, file, nFaults>>
     ELSE \/ /\ Ok                      \* written and logged
             /\ file' = YamlFile(InitNewSettings(args))
             /\ settings' = SettingsAfterInit(settings, InitNewSettings(args))
             /\ toolResult' = Returned(InitNewSettings(args))
          \/ /\ Fault                   \* Bun.write fails
             /\ toolResult' = Failed
             /\ UNCHANGED <<settings, file>>
          \/ /\ Fault                   \* written, then the log call throws
             /\ file' = YamlFile(InitNewSettings(args))
             /\ settings' = SettingsAfterInit(settings, InitNewSettings(args))
             /\ toolResult' = Failed
  /\ UNCHANGED reset
  /\ ToolFrame

(***************************************************************************)
(* The specification.                                                      *)
(***************************************************************************)
\* Positions whose resumption reads and writes nothing but the local
\* variables of the run (the awaited call is a log call, or a call on the
\* temporary session, or git rev-parse / git add, none of which touches the
\* state shared with other runs and with the tools).  Such a resumption
\* commutes with every step of every other run, tool and environment action,
\* so it is scheduled before them: no reachable combination of shared state
\* and decisions of the runs is lost, and the state space stays small.
LocalPositions ==
  { "log:disabled", "isWorktree", "log:notWorktree", "log:noTurn",
    "log:alreadyCommitted", "log:processing", "log:noChanges", "log:found",
    "log:generating", "session.create", "session.prompt", "session.delete",
    "log:generated", "log:summaryFailed", "log:staging", "git add",
    "log:creating", "log:commitCreated", "log:stageFailed", "log:commitFailed",
    "log:success", "log:error" }

\* no run other than h is about to take a local resumption
NoLocalStepBut(h) == \A o \in Handlers \ {h} : run[o].pc \notin LocalPositions
NoLocalStep == \A o \in Handlers : run[o].pc \notin LocalPositions

HandlerStep(h) ==
  \/ AfterLogReceived(h)
  \/ AfterLogDisabled(h)
  \/ AfterIsWorktree(h)
  \/ AfterLogChecked(h)
  \/ AfterLogNotWorktree(h)
  \/ AfterLogFetching(h)
  \/ AfterMessages(h)
  \/ AfterLogNoTurn(h)
  \/ AfterLogAlreadyCommitted(h)
  \/ AfterLogProcessing(h)
  \/ AfterHasChanges(h)
  \/ AfterLogNoChanges(h)
  \/ AfterLogFound(h)
  \/ AfterLogGenerating(h)
  \/ AfterSessionCreate(h)
  \/ AfterSessionPrompt(h)
  \/ AfterSessionDelete(h)
  \/ AfterLogGenerated(h)
  \/ AfterLogSummaryFailed(h)
  \/ AfterLogCreated(h)
  \/ AfterLogStaging(h)
  \/ AfterGitAdd(h)
  \/ AfterLogCreating(h)
  \/ AfterGitCommit(h)
  \/ AfterLogCommitCreated(h)
  \/ AfterLogStageFailed(h)
  \/ AfterLogCommitFailed(h)
  \/ AfterLogSuccess(h)
  \/ AfterLogError(h)

\* the environment, the event handler and the settings tools
Environment ==
  \/ \E s \in Sessions : UserMessage(s)
  \/ \E s \in Sessions : AssistantMessage(s)
  \/ EditFiles

Events ==
  \/ OtherEvent
  \/ \E h \in Handlers, s \in Sessions : SessionIdle(h, s)

Tools(args, limit) ==
  \/ nToolCalls < limit /\ getSettingsTool
  \/ nToolCalls < limit /\ \E a \in args : setSettingsTool(a)
  \/ nToolCalls < limit /\ ResetLoad
  \/ ResetApply
  \/ nToolCalls < limit /\ \E a \in args : initTool(a)

\* a setSettings call next to the event handler
SetSettings ==
  nToolCalls < MaxToolCalls /\ \E a \in PipelineArgs : setSettingsTool(a)

\* serial dispatch: the host delivers the next event when the handler run
\* of the previous one has ended
Next ==
  \/ NoLocalStep /\ Environment
  \/ (\A h \in Handlers : ~Active(h)) /\ nEvents < MaxEvents /\ Events
  \/ \E h \in Handlers : HandlerStep(h)
  \/ NoLocalStep /\ SetSettings

\* concurrent dispatch: a session.idle event may arrive while earlier
\* handler runs are suspended; every external call succeeds and the
\* settings stay as loaded
NextConcurrent ==
  /\ \/ NoLocalStep /\ \E s \in Sessions : UserMessage(s)
     \/ NoLocalStep /\ EditFiles
     \/ NoLocalStep /\ nEvents < MaxDispatched
                    /\ \E h \in Handlers, s \in Sessions : SessionIdle(h, s)
     \/ \E h \in Handlers : NoLocalStepBut(h) /\ HandlerStep(h)
  /\ nFaults' = nFaults

\* the settings tools alone
NextTools == Tools(ToolArgs, MaxSettingsCalls)

\* serial dispatch; every external call succeeds and the settings stay as
\* loaded
NextSerial ==
  /\ \/ NoLocalStep /\ \E s \in Sessions : UserMessage(s)
     \/ NoLocalStep /\ EditFiles
     \/ /\ \A h \in Handlers : ~Active(h)
        /\ nEvents < MaxDispatched
        /\ \E h \in Handlers, s \in Sessions : SessionIdle(h, s)
     \/ \E h \in Handlers : HandlerStep(h)
  /\ nFaults' = nFaults

\* serial dispatch with failing calls; the settings stay as loaded
NextRetry ==
  \/ NoLocalStep /\ \E s \in Sessions : UserMessage(s)
  \/ NoLocalStep /\ EditFiles
  \/ /\ \A h \in Handlers : ~Active(h)
     /\ nEvents < MaxDispatched
     /\ \E h \in Handlers, s \in Sessions : SessionIdle(h, s)
  \/ \E h \in Handlers : HandlerStep(h)

\* serial dispatch over message lists that do not change; every external
\* call succeeds
NextTurn ==
  /\ \/ /\ \A h \in Handlers : ~Active(h)
        /\ nEvents < MaxEvents
        /\ \E h \in Handlers, s \in Sessions : SessionIdle(h, s)
     \/ \E h \in Handlers : HandlerStep(h)
  /\ nFaults' = nFaults

\* the plugin when session sA holds one of the message lists above, with or
\* without a settings file
InitMessage == Start(MessageFiles, {UndefinedID}, MessageLists)

\* serial dispatch over these lists, with a setSettings call; every external
\* call succeeds
NextMessage ==
  /\ \/ NoLocalStep /\ EditFiles
     \/ /\ \A h \in Handlers : ~Active(h)
        /\ nEvents < MaxEvents
        /\ \E h \in Handlers, s \in Sessions : SessionIdle(h, s)
     \/ \E h \in Handlers : HandlerStep(h)
     \/ NoLocalStep /\ SetSettings
  /\ nFaults' = nFaults

\* serial dispatch next to setSettings and resetSettings calls, which
\* complete while a handler run is suspended; every external call succeeds
NextRace ==
  /\ \/ NoLocalStep /\ EditFiles
     \/ /\ \A h \in Handlers : ~Active(h)
        /\ nEvents < MaxEvents
        /\ \E h \in Handlers, s \in Sessions : SessionIdle(h, s)
     \/ \E h \in Handlers : HandlerStep(h)
     \/ /\ NoLocalStep /\ nToolCalls < MaxRaceCalls
        /\ \E a \in PipelineArgs : setSettingsTool(a)
     \/ NoLocalStep /\ nToolCalls < MaxRaceCalls /\ ResetLoad
     \/ NoLocalStep /\ ResetApply
  /\ nFaults' = nFaults

\* serial dispatch next to calls of the four settings tools; every
\* external call succeeds
NextFrame ==
  /\ \/ NoLocalStep /\ EditFiles
     \/ /\ \A h \in Handlers : ~Active(h)
        /\ nEvents < MaxEvents
        /\ \E h \in Handlers, s \in Sessions : SessionIdle(h, s)
     \/ \E h \in Handlers : HandlerStep(h)
     \/ NoLocalStep /\ Tools(PipelineArgs, MaxRaceCalls)
  /\ nFaults' = nFaults

Spec == Init /\ [][Next]_vars
SpecFrame == InitMessage /\ [][NextFrame]_vars
SpecRace == InitMessage /\ [][NextRace]_vars
SpecMessage == InitMessage /\ [][NextMessage]_vars
SpecTurn == InitTurn /\ [][NextTurn]_vars
SpecRetry == Init /\ [][NextRetry]_vars
SpecSerial == Init /\ [][NextSerial]_vars
SpecConcurrent == Init /\ [][NextConcurrent]_vars
SpecTools == InitTools /\ [][NextTools]_vars


(***************************************************************************)
(* Properties.                                                             *)
(***************************************************************************)
PipelineCalls == {"git status", "session.create", "session.prompt",
                  "session.delete", "git add", "git commit"}

\* the run of h writes lastCommittedTurnID in this step
Passes(h) == ~run[h].passed /\ run'[h].passed

C2_SecondIdleStopsAtDedup ==
  \A h \in Handlers :
    /\ "git add" \in run[h].calls => run[h].passed
    /\ (Active(h) /\ run[h].prev = run[h].sessionID)
          => ~run[h].passed /\ run[h].calls \cap PipelineCalls = {}

C2_Witness ==
  \E h \in Handlers :
    run[h].prev = run[h].sessionID /\ run[h].pc = "log:alreadyCommitted"

C4_HandlerNeverThrows == lastOutcome # "thrown"

\* C5: the in-memory settings always have a mode of the enum and
\* maxCommitLength >= 100.
C5_SettingsValid ==
  /\ settings["mode"] \in ZAutoCommitMode
  /\ settings["maxCommitLength"] >= MinCommitLength

\* C6: every message passed to git commit is at most as long as the
\* maxCommitLength in force when it was truncated.
C6_MessageWithinBound ==
  \A h \in Handlers :
    "git commit" \in run[h].calls
       => Len(run[h].truncatedMessage) <= run[h].maxAtTruncate

\* C7: with mode = disabled at the mode gate the run makes no external call
\* (worktree probe, message query, git status, summary delegate, git add,
\* git commit) and does not write lastCommittedTurnID.
C7_DisabledStopsAtGate ==
  \A h \in Handlers :
    run[h].modeAtGate = "disabled"
       => run[h].calls = {} /\ ~run[h].passed /\ run[h].pc = "log:disabled"

C7_Witness ==
  \E h \in Handlers :
    run[h].modeAtGate = "disabled" /\ run[h].pc = "log:disabled" /\ secondary

\* C8: with mode = worktree at the worktree gate, a run whose probe found
\* the primary checkout, or whose probe command failed, skips before the
\* message query: it makes no session query, change check or commit.
C8_WorktreeModeNeedsSecondary ==
  \A h \in Handlers :
    (run[h].modeAtWorktreeGate = "worktree" /\ run[h].probe \in {"primary", "failed"})
       => /\ run[h].calls = {"isWorktree"}
          /\ ~run[h].passed
          /\ run[h].pc = "log:notWorktree"

C8_Witness ==
  \E h \in Handlers :
    /\ run[h].modeAtWorktreeGate = "worktree"
    /\ run[h].probe = "failed" /\ secondary
    /\ run[h].pc = "log:notWorktree"

\* C9: with mode = enabled at the worktree gate the run goes on to the
\* message query whatever the probe did.
C9_EnabledIgnoresProbe ==
  \A h \in Handlers :
    run[h].modeAtWorktreeGate = "enabled"
       => run[h].pc = "log:fetching" \/ "session.messages" \in run[h].calls

C9_Witness ==
  \E h \in Handlers :
    /\ run[h].modeAtWorktreeGate = "enabled"
    /\ run[h].probe = "primary"
    /\ run[h].pc = "git commit"

\* C10: when git status printed nothing or failed, the run calls neither the
\* summary delegate nor git add nor git commit.
C10_NoChangesNoCommit ==
  \A h \in Handlers :
    run[h].changeCheck \in {"clean", "failed"}
       => /\ run[h].calls \cap {"session.create", "session.prompt",
                                "session.delete", "git add", "git commit"} = {}
          /\ run[h].pc = "log:noChanges"

C10_Witness ==
  \E h \in Handlers :
    run[h].changeCheck = "failed" /\ dirty /\ run[h].pc = "log:noChanges"

\* the positions of a run after generateCommitSummary returned a summary
AfterSummary == {"log:created", "log:staging", "git add", "log:creating",
                 "git commit", "log:commitCreated", "log:stageFailed",
                 "log:commitFailed", "log:success"}

\* C11: when the temporary session's creation or the prompt call throws,
\* generateCommitSummary does not throw: the run gets the summary
\* "Auto-commit" and goes on to compose, stage and commit.
C11_DelegateFailureFallsBack ==
  \A h \in Handlers :
    run[h].summaryFault \in {"create", "prompt"}
       => \/ run[h].pc = "log:summaryFailed"
          \/ run[h].pc \in AfterSummary /\ run[h].summary = AutoCommitStr

\* C12: once generateCommitSummary has returned, no temporary session of
\* the run is left undeleted, whichever way the function was left.
C12_TempSessionDeleted ==
  \A h \in Handlers : run[h].pc \in AfterSummary => ~run[h].tempSession

\* C13: a failure of staging or of the commit command leaves
\* lastCommittedTurnID as it is, and no later session.idle event passes the
\* dedup check for the turn whose stage or commit failed: the commit is not
\* retried.
C13_FailedCommitNotRetried ==
  [][/\ \A h \in Handlers :
          Passes(h) => run'[h].turn.userMessageID \notin failed
     /\ failed' # failed => lastCommittedTurnID' = lastCommittedTurnID]_vars

\* this step is a call of the settings tool `tool`
Calls(tool) == nToolCalls' = nToolCalls + 1 /\ lastCall'.tool = tool

\* two settings objects with the same mode, maxCommitLength and commitModel
\* (an absent commitModel, an undefined and an empty one are the same)
NoModel(m) == m \in {Undefined, ""}
SameSettings(a, b) ==
  /\ a["mode"] = b["mode"]
  /\ a["maxCommitLength"] = b["maxCommitLength"]
  /\ \/ CommitModelOf(a) = CommitModelOf(b)
     \/ NoModel(CommitModelOf(a)) /\ NoModel(CommitModelOf(b))

\* C14: a setSettings call with an invalid field (mode outside the enum,
\* maxCommitLength < 100) fails and leaves every field of the in-memory
\* settings as it was.
C14_SetSettingsValidates ==
  [][(Calls("set") /\ ~ValidPartial(lastCall'.args))
        => toolResult' = Failed /\ settings' = settings]_vars

\* C15: when resetSettings completes, the in-memory settings equal the
\* defaults overlaid with the file layer it loaded; a commitModel set by an
\* earlier setSettings is gone unless the file defines one.
C15_ResetDiscardsUpdates ==
  [][(/\ reset.pc = "assign" /\ reset'.pc = "idle"
      /\ reset.fileSettings = loadSettingsFromFile(file))
        => SameSettings(settings', DefaultsWith(reset.fileSettings))]_vars

\* C16: an initSettings call with an invalid field fails and leaves the
\* settings file as it was; with valid fields a call that returns has
\* written the defaults overlaid with the provided fields; a call whose
\* write fails is reported as failed.
C16_InitValidatesAndWrites ==
  [][Calls("init") =>
       LET args == lastCall'.args
       IN  /\ ~ValidPartial(args) => toolResult' = Failed /\ file' = file
           /\ (ValidPartial(args) /\ toolResult'.status = "ok")
                => /\ file'.kind = "yaml"
                   /\ SameSettings(file'.data, DefaultsWith(args))
           /\ nFaults' # nFaults => toolResult' = Failed]_vars

\* C17: an initSettings call leaves the in-memory settings and
\* lastCommittedTurnID as they were, whether it wrote the file or failed.
C17_InitLeavesLiveState ==
  [][Calls("init")
        => settings' = settings /\ lastCommittedTurnID' = lastCommittedTurnID]_vars

\* the file was written with a mode and a maxCommitLength that differ from
\* the live settings, which a get call then returned
C17_Witness ==
  /\ lastCall.tool = "get" /\ toolResult = Returned(settings)
  /\ lastCommittedTurnID # UndefinedID
  /\ file.kind = "yaml" /\ ValidPartial(file.data)
  /\ ~SameSettings(settings, DefaultsWith(file.data))
  /\ settings["mode"] = DefaultMode /\ file.data["mode"] = "enabled"

\* the message list the run of h was given, when the lists do not change
Given(h) == sessions[run[h].sessionID]

\* the run of h has called getLastTurn
Extracted(h) ==
  run[h].pc \in {"log:noTurn", "log:alreadyCommitted", "log:processing",
                 "hasChanges", "log:noChanges", "log:found"}

HasUser(messages) == \E i \in 1..Len(messages) : messages[i].role = "user"

\* the position of the user message no user message follows
Anchor(messages) ==
  CHOOSE i \in 1..Len(messages) :
    /\ messages[i].role = "user"
    /\ \A j \in (i + 1)..Len(messages) : messages[j].role # "user"

\* the assistant messages pointing at id, in list order
Collected(messages, id) ==
  SelectSeq(messages, LAMBDA m : m.role = "assistant" /\ m.parentID = id)

\* the texts of the text-typed parts, in part order
PartTexts(parts) ==
  LET texts == SelectSeq(parts, LAMBDA p : p.type = "text")
  IN  [i \in 1..Len(texts) |-> texts[i].text]

\* the texts of all text-typed parts of a sequence of messages
RECURSIVE AllTexts(_)
AllTexts(messages) ==
  IF messages = <<>> THEN <<>>
  ELSE AllTexts(SubSeq(messages, 1, Len(messages) - 1))
         \o PartTexts(messages[Len(messages)].parts)

\* each message's own newline-join of its text-typed parts
OwnJoins(messages) ==
  [i \in 1..Len(messages) |-> Join(PartTexts(messages[i].parts), <<NL>>)]

HasText(m) == \E i \in 1..Len(m.parts) : m.parts[i].type = "text"

\* C18: for a list with a user message getLastTurn returns a turn whose id
\* and prompt come from the last user message of the list and whose
\* response is built from all and only the assistant messages pointing at
\* that message, in list order, wherever they sit in the list.
C18_TurnAnchoredAtLastUser ==
  \A h \in Handlers :
    (Extracted(h) /\ HasUser(Given(h))) =>
      LET anchor == Given(h)[Anchor(Given(h))]
      IN  /\ run[h].turn # NoTurn
          /\ run[h].turn.userMessageID = anchor.id
          /\ run[h].turn.userPrompt = Join(PartTexts(anchor.parts), <<NL>>)
          /\ run[h].turn.assistantResponse
                = Join(AllTexts(Collected(Given(h), anchor.id)), <<NL>>)

\* two user messages, the answers to the first after the second and around
\* an answer to the second
C18_Witness ==
  \E h \in Handlers :
    /\ Extracted(h) /\ Len(Given(h)) = 4
    /\ Given(h)[1].role = "user" /\ Given(h)[1].id = 2
    /\ Given(h)[2].role = "assistant" /\ Given(h)[2].parentID = 1
    /\ Given(h)[3].role = "user" /\ Given(h)[3].id = 1
    /\ Given(h)[4].role = "assistant" /\ Given(h)[4].parentID = 2
    /\ run[h].turn.userMessageID = 1
    /\ run[h].turn.assistantResponse # <<>>

\* C19 as stated: the response is the newline-join, over the collected
\* assistant messages, of each message's own newline-join of its text parts,
\* also when a collected message has no text part.
C19_ResponseJoinsPerMessage ==
  \A h \in Handlers :
    (Extracted(h) /\ HasUser(Given(h))) =>
      run[h].turn.assistantResponse
        = Join(OwnJoins(Collected(Given(h), run[h].turn.userMessageID)), <<NL>>)

\* C19 as amended: the response is the newline-join, over the collected
\* assistant messages that have a text part, of each message's own
\* newline-join of its text parts; a collected message without a text part
\* adds nothing, not even an empty line.
C19_ResponseJoinsMessagesWithText ==
  \A h \in Handlers :
    (Extracted(h) /\ HasUser(Given(h))) =>
      run[h].turn.assistantResponse
        = Join(OwnJoins(SelectSeq(Collected(Given(h), run[h].turn.userMessageID),
                                  HasText)), <<NL>>)

\* a response made of three collected messages, the middle one without text
C19_Witness ==
  \E h \in Handlers :
    /\ Extracted(h) /\ Len(Given(h)) = 4
    /\ LET c == Collected(Given(h), run[h].turn.userMessageID)
       IN  Len(c) = 3 /\ HasText(c[1]) /\ ~HasText(c[2]) /\ HasText(c[3])
    /\ run[h].turn.assistantResponse = <<"a", NL, "b", NL, "c">>

\* C20: getLastTurn returns null exactly for the lists without a user
\* message, the empty list included; the run then ends at "No turn found"
\* without writing lastCommittedTurnID and without a git or summary call; a
\* last user message nothing points at gives a turn with an empty response.
C20_NoUserNoTurn ==
  \A h \in Handlers :
    Extracted(h) =>
      /\ run[h].pc = "log:noTurn" <=> ~HasUser(Given(h))
      /\ run[h].pc = "log:noTurn" =>
            /\ run[h].turn = NoTurn /\ ~run[h].passed
            /\ run[h].calls \cap PipelineCalls = {}
      /\ (HasUser(Given(h)) /\ Collected(Given(h), run[h].turn.userMessageID) = <<>>)
            => run[h].turn # NoTurn /\ run[h].turn.assistantResponse = <<>>

\* a non-empty list of assistant messages only
C20_Witness ==
  \E h \in Handlers :
    /\ run[h].pc = "log:noTurn" /\ Len(Given(h)) = 2
    /\ lastCommittedTurnID = UndefinedID

\* the run of h has composed its commit message
Composed(h) == run[h].pc \in AfterSummary

\* C21: the untruncated commit message is the summary, a blank line, the
\* line "## User Prompt", the user prompt as it is, a blank line, the line
\* "## LLM Response" and the assistant response as it is.
C21_MessageIsThreeBlocks ==
  \A h \in Handlers :
    Composed(h) =>
      LET m == run[h].commitMessage
          s == Len(run[h].summary)
          p == Len(run[h].turn.userPrompt)
          r == Len(run[h].turn.assistantResponse)
      IN  /\ Len(m) = s + 17 + p + 18 + r
          /\ SubSeq(m, 1, s) = run[h].summary
          /\ SubSeq(m, s + 1, s + 17)
                = <<NL, NL>> \o <<"#", "#", " ", "U", "s", "e", "r", " ",
                                  "P", "r", "o", "m", "p", "t">> \o <<NL>>
          /\ SubSeq(m, s + 18, s + 17 + p) = run[h].turn.userPrompt
          /\ SubSeq(m, s + 18 + p, s + 35 + p)
                = <<NL, NL>> \o <<"#", "#", " ", "L", "L", "M", " ", "R", "e",
                                  "s", "p", "o", "n", "s", "e">> \o <<NL>>
          /\ SubSeq(m, s + 36 + p, Len(m)) = run[h].turn.assistantResponse

\* a prompt with a quote, a hash, a dollar sign and a newline, and a response
C21_Witness ==
  \E h \in Handlers :
    /\ Composed(h)
    /\ run[h].turn.userPrompt = SpecialPrompt
    /\ run[h].turn.assistantResponse = Repeat("x", 58)
    /\ SubSeq(run[h].commitMessage, 21, 24) = SpecialPrompt

\* the run of h has truncated its commit message
Truncated(h) == run[h].pc \in AfterSummary \ {"log:created"}

\* the last n characters of s
Suffix(s, n) == SubSeq(s, Len(s) - n + 1, Len(s))

\* C22: a message longer than maxLength is truncated to exactly maxLength
\* characters, ending with "\n..." after the first maxLength - 4 characters
\* of the input; a message of at most maxLength characters is unchanged.
C22_TruncateExactLength ==
  \A h \in Handlers :
    Truncated(h) =>
      LET m == run[h].commitMessage
          t == run[h].truncatedMessage
          maxLength == run[h].maxAtTruncate
      IN  IF Len(m) > maxLength
          THEN /\ Len(t) = maxLength
               /\ Suffix(t, 4) = <<NL, ".", ".", ".">>
               /\ SubSeq(t, 1, maxLength - 4) = SubSeq(m, 1, maxLength - 4)
          ELSE t = m

\* the length of the message up to and including the "## LLM Response" line
HeadLength(h) == Len(run[h].summary) + 17 + Len(run[h].turn.userPrompt) + 18

\* C23: under a valid maxCommitLength, a message that is too long keeps its
\* summary, its whole "## User Prompt" section and the "## LLM Response"
\* line, and ends with "...": only the response is shortened.
C23_OnlyResponseShortened ==
  \A h \in Handlers :
    ( /\ Truncated(h)
      /\ run[h].maxAtTruncate >= MinCommitLength
      /\ Len(run[h].commitMessage) > run[h].maxAtTruncate )
    => /\ Len(run[h].truncatedMessage) >= HeadLength(h) + 3
       /\ SubSeq(run[h].truncatedMessage, 1, HeadLength(h))
             = SubSeq(run[h].commitMessage, 1, HeadLength(h))
       /\ Suffix(run[h].truncatedMessage, 3) = <<".", ".", ".">>

\* the first line of a message: its characters before the first newline
FirstLine(m) ==
  IF \E i \in 1..Len(m) : m[i] = NL
  THEN SubSeq(m, 1, (CHOOSE i \in 1..Len(m) :
                       m[i] = NL /\ \A j \in 1..(i - 1) : m[j] # NL) - 1)
  ELSE m

\* C24: the first line of every message passed to git commit has at most 50
\* characters, whatever the summary delegate replied.
C24_FirstLineAtMost50 ==
  \A h \in Handlers :
    "git commit" \in run[h].calls
       => Len(FirstLine(run[h].truncatedMessage)) <= MaxFirstLine

\* the run of h sends its summary prompt in this step
SendsPrompt(h) == run[h].pc # "session.prompt" /\ run'[h].pc = "session.prompt"

\* C25: the summary prompt request carries settings.commitModel when it is
\* set, and no model when it is absent.
C25_RequestCarriesModel ==
  [][\A h \in Handlers :
       SendsPrompt(h) =>
         IF NoModel(CommitModelOf(settings))
         THEN "model" \notin DOMAIN run'[h].request
         ELSE /\ "model" \in DOMAIN run'[h].request
              /\ run'[h].request["model"] = CommitModelOf(settings)]_vars

\* the plugin has just started, or a resetSettings call has just completed,
\* and no external call failed
FreshSettings ==
  /\ nFaults = 0
  /\ \/ nToolCalls = 0
     \/ lastCall.tool = "reset" /\ reset.pc = "idle"

\* s has key k with value v, commitModel being absent when v is undefined
HasValue(s, k, v) ==
  IF k = "commitModel" /\ NoModel(v) THEN NoModel(CommitModelOf(s))
  ELSE k \in DOMAIN s /\ s[k] = v

\* C26: at startup and after a reset the settings are the defaults (mode
\* worktree, maxCommitLength 10000, no commitModel) when the settings file
\* is missing or does not parse or validate, and otherwise the defaults
\* with exactly the keys of the file overridden.
C26_DefaultsUnderFile ==
  FreshSettings =>
    LET layer == IF file.kind = "yaml" /\ ValidPartial(file.data)
                 THEN file.data ELSE NoOverrides
        expected(k) == IF k \in DOMAIN layer THEN layer[k]
                       ELSE IF k = "mode" THEN "worktree"
                       ELSE IF k = "maxCommitLength" THEN 10000
                       ELSE Undefined
    IN  \A k \in {"mode", "maxCommitLength", "commitModel"} :
          HasValue(settings, k, expected(k))

SettingsKeys == {"mode", "maxCommitLength", "commitModel"}

\* every key of the update has its new value in s2 and every other key has
\* the value it has in s1
AppliedWhole(s1, s2, update) ==
  \A k \in SettingsKeys :
    IF k \in DOMAIN update THEN HasValue(s2, k, update[k])
    ELSE HasValue(s2, k, IF k \in DOMAIN s1 THEN s1[k] ELSE Undefined)

\* C27: the settings change only in the one step in which a setSettings
\* call or a resetSettings call completes, and that step writes every field
\* of the update: no state, and so no read of a suspended handler, has only
\* some fields of an update.
C27_UpdatesAreAtomic ==
  [][settings' # settings =>
       \/ /\ lastCall'.tool = "set" /\ nToolCalls' = nToolCalls + 1
          /\ AppliedWhole(settings, settings', lastCall'.args)
       \/ /\ reset.pc = "assign" /\ reset'.pc = "idle"
          /\ AppliedWhole(settings, settings',
                Assign([mode |-> "worktree", maxCommitLength |-> 10000],
                       IF IsNull(reset.fileSettings) THEN NoOverrides
                       ELSE reset.fileSettings))]_vars

\* a run read the mode worktree at its mode gate, was suspended while
\* setSettings({mode: enabled, maxCommitLength: 100}) completed, and then
\* read both new values
C27_Witness ==
  \E h \in Handlers :
    /\ Truncated(h)
    /\ run[h].modeAtGate = "worktree"
    /\ run[h].modeAtWorktreeGate = "enabled"
    /\ run[h].maxAtTruncate = 100
    /\ lastCall = [tool |-> "set",
                   args |-> [mode |-> "enabled", maxCommitLength |-> 100]]

\* C28: a run takes its steps in the order mode check, worktree probe,
\* message query, dedup check and marker write, change check, summary
\* generation, compose, truncate, git add, git commit: each step has been
\* taken only if the one before it has, and git commit is invoked only
\* after git add succeeded.
C28_StepsInOrder ==
  \A h \in Handlers :
    LET r == run[h]
    IN  /\ "isWorktree" \in r.calls => r.modeAtGate \in {"worktree", "enabled"}
        /\ r.probe # "none" => "isWorktree" \in r.calls
        /\ "session.messages" \in r.calls
              => r.probe # "none" /\ r.modeAtWorktreeGate # "none"
        /\ r.passed => "session.messages" \in r.calls
        /\ "git status" \in r.calls => r.passed
        /\ r.changeCheck # "none" => "git status" \in r.calls
        /\ "session.create" \in r.calls => r.changeCheck = "dirty"
        /\ "session.prompt" \in r.calls => "session.create" \in r.calls
        /\ Len(r.commitMessage) > 0
              => "session.create" \in r.calls /\ Len(r.summary) > 0
        /\ r.maxAtTruncate # 0 => Len(r.commitMessage) > 0
        /\ "git add" \in r.calls => r.maxAtTruncate # 0
        /\ r.addResult # "none" => "git add" \in r.calls
        /\ "git commit" \in r.calls => r.addResult = "ok"

\* git add failed after all the earlier steps, and git commit is not called
C28_Witness ==
  \E h \in Handlers :
    /\ run[h].pc = "log:stageFailed"
    /\ run[h].addResult = "failed"
    /\ run[h].calls = {"isWorktree", "session.messages", "git status",
                       "session.create", "session.prompt", "session.delete",
                       "git add"}

\* generateCommitSummary of the run of h has just returned
SummaryReturned(h) == run[h].pc = "log:created"

\* the text the delegate yielded to the run of h: the trimmed newline-join
\* of the text parts of the reply, empty when there is no reply
UsableText(h) ==
  IF IsNull(run[h].reply) THEN <<>>
  ELSE Trim(Join(TextsOf(run[h].reply.parts), <<NL>>))

C30_EndsInOneOutcome ==
  /\ [](lastOutcome \in {"none", "skipped", "committed", "failed"})
  /\ [][\A h \in Handlers :
          \A c \in {"isWorktree", "session.messages"} \cup PipelineCalls :
            (run[h].pc # c /\ run'[h].pc = c) => c \notin run[h].calls]_vars

\* C31: a run whose git add or git commit failed makes an error-level log
\* call and no "Committed changes successfully" call; that call is made
\* only after both git add and git commit succeeded.
C31_FailuresLoggedAsErrors ==
  \A h \in Handlers :
    LET r == run[h]
        errors == {"log:stageFailed", "log:commitFailed", "log:error"}
    IN  /\ r.addResult = "failed"
              => r.logged \cap errors # {} /\ "log:success" \notin r.logged
        /\ r.commitResult = "failed"
              => r.logged \cap errors # {} /\ "log:success" \notin r.logged
        /\ "log:success" \in r.logged
              => r.addResult = "ok" /\ r.commitResult = "ok"

\* git add succeeded, git commit failed and "Failed to commit changes" is
\* being logged
C31_Witness ==
  \E h \in Handlers :
    /\ run[h].addResult = "ok"
    /\ run[h].commitResult = "failed"
    /\ run[h].pc = "log:commitFailed"
    /\ run[h].logged = {"log:commitFailed"}

\* C32: a session.idle event for a turn whose previous event wrote the
\* marker and found a clean tree stops at the dedup check, also when the
\* tree is dirty by now: it runs no change check and makes no commit.  (The
\* run follows, with no run and no user message in between, a run of the
\* same session whose change check found a clean tree.)
C32_CleanTurnStaysHandled ==
  \A h \in Handlers :
    (Active(h) /\ run[h].prev = run[h].sessionID /\ lastCheck = "clean") =>
      /\ ~run[h].passed
      /\ run[h].calls \cap {"git status", "git add", "git commit"} = {}
      /\ run[h].pc \in {"log:alreadyCommitted", "session.messages"}
            => lastCommittedTurnID = getLastTurn(sessions[run[h].sessionID]).userMessageID

\* the second event of the turn is skipped as already committed although
\* the tree is dirty now
C32_Witness ==
  \E h \in Handlers :
    /\ Active(h)
    /\ run[h].prev = run[h].sessionID
    /\ lastCheck = "clean"
    /\ dirty
    /\ run[h].pc = "log:alreadyCommitted"

\* C33: a run skipped at the mode gate, the worktree gate or the no-turn
\* check has not written lastCommittedTurnID: the marker changes only in
\* the step in which a run passes the dedup check, and such a run is never
\* skipped at one of these; the run that follows a skipped one gets to the
\* dedup check with the marker the skipped run found.
C33_SkippedEventLeavesMarker ==
  /\ [](\A h \in Handlers : run[h].pc \in GateSkips => ~run[h].passed)
  /\ [][lastCommittedTurnID' # lastCommittedTurnID
          => \E h \in Handlers : Passes(h)]_vars

\* an event was skipped at a gate, setSettings changed the mode, and the
\* next event of the session, with no user message in between, commits
C33_Witness ==
  \E h \in Handlers :
    /\ Active(h)
    /\ lastSkip = run[h].sessionID
    /\ lastCall.tool = "set"
    /\ run[h].modeAtWorktreeGate = "enabled"
    /\ ~run[h].isInWorktree
    /\ run[h].pc = "log:success"

\* C34: a run that passed the gates and found changes is not stopped by a
\* later change of the mode: when every external call succeeds it ends with
\* a commit; and it truncates its message with the maxCommitLength the
\* settings have at the truncation step.
C34_SettingsReadWhenUsed ==
  [][\A h \in Handlers :
       /\ (Active(h) /\ run'[h].pc = "idle" /\ run[h].changeCheck = "dirty")
             => run[h].pc = "log:success" /\ lastOutcome' = "committed"
       /\ (run[h].pc = "log:created" /\ run'[h].pc = "log:staging")
             => run'[h].truncatedMessage
                  = truncateCommitMessage(run[h].commitMessage,
                                          settings.maxCommitLength)]_vars

\* a run passed the gates under maxCommitLength 10000; while it was
\* suspended a setSettings call lowered the limit to 100 and another set
\* the mode to disabled; it truncated to 100 characters and committed
C34_Witness ==
  \E h \in Handlers :
    /\ run[h].pc = "log:success"
    /\ run[h].maxAtGate = 10000
    /\ run[h].maxAtTruncate = 100
    /\ Len(run[h].commitMessage) > 100
    /\ Len(run[h].truncatedMessage) = 100
    /\ settings.mode = "disabled"

\* C35: no step of a settings tool (a call, or the second half of reset)
\* changes lastCommittedTurnID and no step of the event handler (a run
\* starts, moves or ends) changes the settings; a getSettings call changes
\* nothing and returns the settings as they are, which only the completion
\* of a set or of a reset changes.
C35_ToolsAndHandlerKeepApart ==
  [][/\ (nToolCalls' # nToolCalls \/ reset' # reset)
           => lastCommittedTurnID' = lastCommittedTurnID
     /\ run' # run => settings' = settings
     /\ Calls("get")
           => /\ UNCHANGED <<settings, lastCommittedTurnID, file, sessions,
                             dirty, secondary, run, reset>>
              /\ toolResult' = [status |-> "ok", value |-> settings]
     /\ settings' # settings
           => Calls("set") \/ (reset.pc = "assign" /\ reset'.pc = "idle")]_vars

\* getSettings returned the settings a setSettings call left, which differ
\* from what the settings file gives, while a handler run that wrote the
\* marker under another mode is suspended
C35_Witness ==
  /\ lastCall.tool = "get"
  /\ toolResult = [status |-> "ok", value |-> settings]
  /\ file.kind = "yaml" /\ ~SameSettings(settings, DefaultsWith(file.data))
  /\ lastCommittedTurnID # UndefinedID
  /\ \E h \in Handlers : run[h].passed /\ run[h].modeAtGate # settings.mode

\* C36: the delivery of an event whose type is not session.idle starts no
\* handler run, so that no log, probe, message query, delegate or git call
\* is made for it, and changes neither the settings nor lastCommittedTurnID.
C36_OtherEventsIgnored ==
  [][(nEvents' = nEvents + 1 /\ lastEvent' = "other") =>
       /\ run' = run
       /\ settings' = settings
       /\ lastCommittedTurnID' = lastCommittedTurnID
       /\ UNCHANGED <<file, sessions, dirty, toolResult>>]_vars

\* an event of another type was delivered after a session.idle event had
\* written the marker, with a dirty tree and a turn not yet committed
C36_Witness ==
  /\ lastEvent = "other"
  /\ nEvents = 2
  /\ dirty
  /\ lastCommittedTurnID # UndefinedID
  /\ \E s \in Sessions :
       /\ getLastTurn(sessions[s]) # NoTurn
       /\ getLastTurn(sessions[s]).userMessageID # lastCommittedTurnID

\* C37: when the deletion of the temporary session fails, the summary the
\* delegate returned is not used: a message the run composes starts with
\* "Auto-commit"; a generated summary is used only when create, prompt and
\* delete were all called and none of them failed.
C37_DeleteFailureDiscardsSummary ==
  \A h \in Handlers :
    /\ run[h].summaryFault = "delete"
          => \/ Len(run[h].commitMessage) = 0
             \/ /\ run[h].summary = AutoCommitStr
                /\ SubSeq(run[h].commitMessage, 1, 13) = AutoCommitStr \o <<NL, NL>>
    /\ (Len(run[h].commitMessage) > 0 /\ run[h].summary # AutoCommitStr)
          => /\ run[h].summaryFault = "none"
             /\ {"session.create", "session.prompt", "session.delete"}
                   \subseteq run[h].calls
             /\ ~run[h].tempSession

\* the delegate replied, the deletion failed, and the message handed to git
\* commit starts with the fallback
C37_Witness ==
  \E h \in Handlers :
    /\ run[h].summaryFault = "delete"
    /\ run[h].tempSession
    /\ run[h].pc = "git commit"
    /\ SubSeq(run[h].truncatedMessage, 1, 11) = AutoCommitStr

\* C38: a setSettings call that returns leaves every field the call does not
\* provide as it was and gives every field it provides the value of the
\* call, except that a commitModel provided as the empty string leaves
\* commitModel undefined.
C38_SetChangesProvidedFieldsOnly ==
  [][(Calls("set") /\ toolResult'.status = "ok") =>
       LET FieldOf(s, k) == IF k \in DOMAIN s THEN s[k] ELSE Undefined
       IN  \A k \in SettingsKeys :
             FieldOf(settings', k) =
               IF k \notin DOMAIN lastCall'.args THEN FieldOf(settings, k)
               ELSE IF k = "commitModel" /\ lastCall'.args[k] = "" THEN Undefined
               ELSE lastCall'.args[k]]_vars

\* the file gave commitModel "m", a first call set the mode, and a second
\* call with commitModel "" returned: commitModel is undefined, the mode and
\* the length limit are as they were
C38_Witness ==
  /\ file = YamlFile([commitModel |-> "m"])
  /\ nToolCalls = 2
  /\ lastCall = [tool |-> "set", args |-> [commitModel |-> ""]]
  /\ toolResult.status = "ok"
  /\ CommitModelOf(settings) = Undefined
  /\ settings["mode"] = "enabled"
  /\ settings["maxCommitLength"] = DefaultMaxCommitLength

====
